---- MODULE Spec2Model ----
(***************************************************************************)
(* Model of the sting hive engine: the hex grid storage (hex_grid.rs) and  *)
(* the per-piece move generator (move_generator.rs).                       *)
(*                                                                         *)
(* A board is built with HexGrid::add, a MoveGeneratorDebugger is taken    *)
(* from it with from_grid, and the four generators are called on it.       *)
(***************************************************************************)
EXTENDS Integers, Sequences, FiniteSets, TLC

VARIABLES grid, generator, call, moves, searched, panicked, run, ret, placed, count

vars == <<grid, generator, call, moves, searched, panicked, run, ret, placed, count>>

(***************************************************************************)
(* Bounds of the model.                                                    *)
(***************************************************************************)
\* number of pieces put on a board, the selected piece included
MaxPieces == 6

\* number of pieces put on a board that the generators run on step by step
MaxRun == 3

\* number of pieces held by a board of the storage interface
MaxHeld == 8

\* number of calls of HexGrid::remove and HexGrid::move_piece made on it
MaxTakes == 2

(***************************************************************************)
(* hex_grid.rs: pieces, directions, locations.                             *)
(***************************************************************************)
\* Option<Piece>::None
None == [piece |-> "None", color |-> "None"]

PieceType == {"Queen", "Grasshopper", "Spider", "Beetle", "Ant", "Pillbug", "Ladybug", "Mosquito"}

PieceColor == {"Black", "White"}

Piece(piece, color) == [piece |-> piece, color |-> color]

\* Direction, in the order of the enum
Direction == <<"NW", "NE", "E", "SE", "SW", "W">>

HexLocation(x, y) == <<x, y>>

\* HexLocation::apply
apply(location, direction) ==
    LET x == location[1]
        y == location[2]
    IN  CASE direction = "NW" -> HexLocation(x, y - 1)
          [] direction = "E"  -> HexLocation(x + 1, y)
          [] direction = "W"  -> HexLocation(x - 1, y)
          [] direction = "SE" -> HexLocation(x, y + 1)
          [] direction = "NE" -> HexLocation(x + 1, y - 1)
          [] direction = "SW" -> HexLocation(x - 1, y + 1)

HEX_GRID_SIZE == 60

HEX_GRID_CENTER == <<HEX_GRID_SIZE \div 2, HEX_GRID_SIZE \div 2>>

MAX_HEIGHT == 7

\* `as i8`: two's complement wrap to 8 bits
AsI8(v) == ((v + 128) % 256) - 128

\* HexGrid::centralize.  `as usize` keeps a non-negative i8 and sends a
\* negative one far above HEX_GRID_SIZE: the index is kept as the i8, and a
\* negative index is an index out of the array.
centralize(location) ==
    LET x == AsI8(location[1] + AsI8(HEX_GRID_CENTER[1]))
        y == AsI8(location[2] + AsI8(HEX_GRID_CENTER[2]))
    IN  <<x, y>>

(***************************************************************************)
(* HexGrid.  grid[y][x] is kept for the cells that hold a piece: a board   *)
(* is a function from <<x, y>> to the MAX_HEIGHT slots of the cell, and a  *)
(* cell outside its domain has every slot None.                            *)
(***************************************************************************)
EmptyCell == [i \in 1..MAX_HEIGHT |-> None]

\* HexGrid::new
HexGrid_new == [c \in {} |-> EmptyCell]

\* self.grid[y][x]
Slots(g, x, y) == IF <<x, y>> \in DOMAIN g THEN g[<<x, y>>] ELSE EmptyCell

\* self.grid[y][x] = slots
SetSlots(g, x, y, slots) ==
    LET keys == IF slots = EmptyCell THEN DOMAIN g \ {<<x, y>>}
                                     ELSE DOMAIN g \cup {<<x, y>>}
    IN  [c \in keys |-> IF c = <<x, y>> THEN slots ELSE g[c]]

\* the slots i..MAX_HEIGHT that hold None (add) / a piece (remove)
FreeSlots(slots) == {i \in 1..MAX_HEIGHT : slots[i] = None}

UsedSlots(slots) == {i \in 1..MAX_HEIGHT : slots[i] # None}

Min(S) == CHOOSE i \in S : \A j \in S : i <= j

\* HexGrid::add
add(g, piece, location) ==
    LET c == centralize(location)
        slots == Slots(g, c[1], c[2])
    IN  IF FreeSlots(slots) = {} THEN g
        ELSE SetSlots(g, c[1], c[2], [slots EXCEPT ![Min(FreeSlots(slots))] = piece])

\* HexGrid::remove, the board it leaves
remove(g, location) ==
    LET c == centralize(location)
        slots == Slots(g, c[1], c[2])
    IN  IF UsedSlots(slots) = {} THEN g
        ELSE SetSlots(g, c[1], c[2], [slots EXCEPT ![Min(UsedSlots(slots))] = None])

\* HexGrid::remove, the piece it returns
removed(g, location) ==
    LET c == centralize(location)
        slots == Slots(g, c[1], c[2])
    IN  IF UsedSlots(slots) = {} THEN None ELSE slots[Min(UsedSlots(slots))]

\* HexGrid::axial
axial(g, x, y) == SelectSeq(Slots(g, x, y), LAMBDA p : p # None)

\* HexGrid::peek
peek(g, location) ==
    LET c == centralize(location) IN axial(g, c[1], c[2])

\* HexGrid::is_empty
is_empty(g) == \A c \in DOMAIN g : g[c][1] = None

(***************************************************************************)
(* Connectivity and mobility primitives of HexGrid.                        *)
(***************************************************************************)
\* Direction::all
Direction_all == Direction

Range(s) == {s[i] : i \in DOMAIN s}

\* the six cells around a location
neighbors_of(location) == {apply(location, d) : d \in Range(Direction_all)}

\* the locations whose stack is not empty
occupied(g) ==
    {l \in {HexLocation(c[1] - HEX_GRID_CENTER[1], c[2] - HEX_GRID_CENTER[2]) : c \in DOMAIN g} :
        Len(peek(g, l)) > 0}

\* HexGrid::get_neighbors: the occupied cells around a location
get_neighbors(g, location) == {n \in neighbors_of(location) : Len(peek(g, n)) > 0}

\* HexGrid::outside: the empty cells next to an occupied cell
outside(g) ==
    {n \in UNION {neighbors_of(l) : l \in occupied(g)} : Len(peek(g, n)) = 0}

\* the cells of S that a chain of adjacent cells of S joins to the cells of seen
RECURSIVE Cluster(_, _)
Cluster(seen, S) ==
    LET more == {l \in S \ seen : neighbors_of(l) \cap seen # {}}
    IN  IF more = {} THEN seen ELSE Cluster(seen \cup more, S)

\* HexGrid::is_connected
is_connected(g) ==
    LET occ == occupied(g)
    IN  occ = {} \/ Cluster({CHOOSE l \in occ : TRUE}, occ) = occ

\* HexGrid::pinned
pinned(g) == {l \in occupied(g) : ~is_connected(remove(g, l))}

\* the two cells next to both ends of the edge from location in a direction
Flanking(location, i) ==
    {apply(location, Direction_all[((i + 4) % 6) + 1]),
     apply(location, Direction_all[(i % 6) + 1])}

\* a piece at location may slide across its i-th edge
CanSlide(g, location, i) ==
    /\ Len(peek(g, apply(location, Direction_all[i]))) = 0
    /\ \E f \in Flanking(location, i) : Len(peek(g, f)) = 0

\* HexGrid::slidable_locations
slidable_locations(g, location) ==
    LET open == SelectSeq(<<1, 2, 3, 4, 5, 6>>, LAMBDA i : CanSlide(g, location, i))
    IN  [k \in 1..Len(open) |-> apply(location, Direction_all[open[k]])]

(***************************************************************************)
(* move_generator.rs: MoveGeneratorDebugger.                               *)
(***************************************************************************)
\* MoveGeneratorDebugger::new
MoveGeneratorDebugger_new == [grid |-> HexGrid_new, pinned |-> {}, outside |-> {}]

\* MoveGeneratorDebugger::from_grid
from_grid(g) == [grid |-> g, pinned |-> pinned(g), outside |-> outside(g)]

\* the elements of a HashSet in the order its iterator gives them
RECURSIVE Iter(_)
Iter(S) ==
    IF S = {} THEN <<>>
    ELSE LET e == CHOOSE e \in S : TRUE IN <<e>> \o Iter(S \ {e})

\* what a generator returns when it stops at the pinned test
NoSearch == [moves |-> <<>>, searched |-> FALSE, panicked |-> FALSE]

\* spider_dfs stopping one slide short
RECURSIVE spider_dfs_short(_, _, _, _), SpiderLoop_short(_, _, _, _, _)
spider_dfs_short(location, visited, depth, spider_removed) ==
    IF location \in Range(visited) THEN <<>>
    ELSE LET pushed == Append(visited, location)
         IN  IF depth = 2 THEN <<location>>
             ELSE SpiderLoop_short(slidable_locations(spider_removed, location), 1,
                                   pushed, depth, spider_removed)

SpiderLoop_short(slidable, k, visited, depth, spider_removed) ==
    IF k > Len(slidable) THEN <<>>
    ELSE spider_dfs_short(slidable[k], visited, depth + 1, spider_removed)
            \o SpiderLoop_short(slidable, k + 1, visited, depth, spider_removed)

\* spider_dfs keeping the cells entered in visited, but not the cell it starts on
RECURSIVE spider_dfs_revisit(_, _, _, _), SpiderLoop_revisit(_, _, _, _, _)
spider_dfs_revisit(location, visited, depth, spider_removed) ==
    IF location \in Range(visited) THEN <<>>
    ELSE LET pushed == IF depth = 0 THEN visited ELSE Append(visited, location)
         IN  IF depth = 3 THEN <<location>>
             ELSE SpiderLoop_revisit(slidable_locations(spider_removed, location), 1,
                                     pushed, depth, spider_removed)

SpiderLoop_revisit(slidable, k, visited, depth, spider_removed) ==
    IF k > Len(slidable) THEN <<>>
    ELSE spider_dfs_revisit(slidable[k], visited, depth + 1, spider_removed)
            \o SpiderLoop_revisit(slidable, k + 1, visited, depth, spider_removed)

\* MoveGeneratorDebugger::spider_dfs; SpiderLoop is its for loop from the
\* k-th slidable location on
RECURSIVE spider_dfs(_, _, _, _), SpiderLoop(_, _, _, _, _)
spider_dfs(location, visited, depth, spider_removed) ==
    IF location \in Range(visited) THEN <<>>
    ELSE LET pushed == Append(visited, location)
         IN  IF depth = 3 THEN <<location>>
             ELSE SpiderLoop(slidable_locations(spider_removed, location), 1,
                             pushed, depth, spider_removed)

SpiderLoop(slidable, k, visited, depth, spider_removed) ==
    IF k > Len(slidable) THEN <<>>
    ELSE spider_dfs(slidable[k], visited, depth + 1, spider_removed)
            \o SpiderLoop(slidable, k + 1, visited, depth, spider_removed)

\* the boards built without lifting the piece off its location
Materialize_kept(g, location, piece, new_locations) ==
    [k \in 1..Len(new_locations) |-> add(g, piece, new_locations[k])]

\* the boards a generator builds: the piece lifted off location and put on
\* each of the new locations in turn
Materialize(g, location, piece, new_locations) ==
    [k \in 1..Len(new_locations) |-> add(remove(g, location), piece, new_locations[k])]

\* spider_moves building a board for every path found, with no deduplication
spider_moves_dups(self, location) ==
    LET stack == peek(self.grid, location)
    IN  IF location \in self.pinned THEN NoSearch
        ELSE LET spider_removed == remove(self.grid, location)
                 new_locations == spider_dfs(location, <<>>, 0, spider_removed)
             IN  [moves |-> Materialize(self.grid, location, stack[1], new_locations),
                  searched |-> TRUE, panicked |-> FALSE]

\* MoveGeneratorDebugger::spider_moves
spider_moves(self, location) ==
    LET stack == peek(self.grid, location)
    IN  IF location \in self.pinned THEN NoSearch
        ELSE LET spider_removed == remove(self.grid, location)
                 new_locations == spider_dfs(location, <<>>, 0, spider_removed)
                 deduplicated == Range(new_locations)
             IN  [moves |-> Materialize(self.grid, location, stack[1], Iter(deduplicated)),
                  searched |-> TRUE, panicked |-> FALSE]

\* the while loop of grasshopper_moves
RECURSIVE GrasshopperWalk(_, _, _)
GrasshopperWalk(self, search_location, direction) ==
    IF search_location \in self.outside THEN search_location
    ELSE GrasshopperWalk(self, apply(search_location, direction), direction)

\* grasshopper_moves without the test that there is a piece to jump over
grasshopper_moves_noskip(self, location) ==
    IF location \in self.pinned THEN NoSearch
    ELSE LET grasshopper == peek(self.grid, location)[1]
             landing == [k \in 1..Len(Direction_all) |->
                            GrasshopperWalk(self, apply(location, Direction_all[k]),
                                            Direction_all[k])]
         IN  [moves |-> Materialize(self.grid, location, grasshopper, landing),
              searched |-> TRUE, panicked |-> FALSE]

\* MoveGeneratorDebugger::grasshopper_moves
grasshopper_moves(self, location) ==
    IF location \in self.pinned THEN NoSearch
    ELSE LET grasshopper == peek(self.grid, location)[1]
             jumps == SelectSeq(Direction_all,
                          LAMBDA d : apply(location, d) \notin self.outside)
             landing == [k \in 1..Len(jumps) |->
                            GrasshopperWalk(self, apply(location, jumps[k]), jumps[k])]
         IN  [moves |-> Materialize(self.grid, location, grasshopper, landing),
              searched |-> TRUE, panicked |-> FALSE]

\* queen_moves testing the perimeter the generator stored, the queen on the board
queen_moves_stale(self, location) ==
    IF location \in self.pinned THEN NoSearch
    ELSE LET queen == peek(self.grid, location)[1]
             steps == SelectSeq(slidable_locations(self.grid, location),
                          LAMBDA l : l \in self.outside)
         IN  [moves |-> Materialize(self.grid, location, queen, steps),
              searched |-> TRUE, panicked |-> FALSE]

\* queen_moves stepping to every slidable location, on the perimeter or not
queen_moves_loose(self, location) ==
    IF location \in self.pinned THEN NoSearch
    ELSE LET queen == peek(self.grid, location)[1]
         IN  [moves |-> Materialize(self.grid, location, queen,
                                    slidable_locations(self.grid, location)),
              searched |-> TRUE, panicked |-> FALSE]

\* queen_moves stepping to every perimeter cell around it, through gates too
queen_moves_nogate(self, location) ==
    IF location \in self.pinned THEN NoSearch
    ELSE LET queen == peek(self.grid, location)[1]
             outside_ == outside(remove(self.grid, location))
             around == [k \in 1..Len(Direction_all) |-> apply(location, Direction_all[k])]
         IN  [moves |-> Materialize(self.grid, location, queen,
                                    SelectSeq(around, LAMBDA l : l \in outside_)),
              searched |-> TRUE, panicked |-> FALSE]

\* queen_moves without its pinned test
queen_moves_unpinned(self, location) ==
    LET queen == peek(self.grid, location)[1]
        queen_removed == remove(self.grid, location)
        outside_ == outside(queen_removed)
        steps == SelectSeq(slidable_locations(self.grid, location),
                     LAMBDA l : l \in outside_)
    IN  [moves |-> Materialize(self.grid, location, queen, steps),
         searched |-> TRUE, panicked |-> FALSE]

\* MoveGeneratorDebugger::queen_moves
queen_moves(self, location) ==
    IF location \in self.pinned THEN NoSearch
    ELSE LET queen == peek(self.grid, location)[1]
             queen_removed == remove(self.grid, location)
             outside_ == outside(queen_removed)
             steps == SelectSeq(slidable_locations(self.grid, location),
                          LAMBDA l : l \in outside_)
         IN  [moves |-> Materialize(self.grid, location, queen, steps),
              searched |-> TRUE, panicked |-> FALSE]

\* the dfs of ant_moves, returning the visited set; AntLoop is its for loop
\* from the k-th slidable location on
RECURSIVE dfs(_, _, _), AntLoop(_, _, _, _)
dfs(location, visited, g) ==
    IF location \in visited THEN visited
    ELSE AntLoop(slidable_locations(g, location), 1, visited \cup {location}, g)

AntLoop(slidable, k, visited, g) ==
    IF k > Len(slidable) THEN visited
    ELSE AntLoop(slidable, k + 1,
                 IF Cardinality(get_neighbors(g, slidable[k])) > 0
                 THEN dfs(slidable[k], visited, g) ELSE visited,
                 g)

\* ant_moves searching the board with the ant still on it
ant_moves_unlifted(self, location) ==
    IF location \in self.pinned THEN NoSearch
    ELSE LET ant_removed == remove(self.grid, location)
             ant == removed(self.grid, location)
             visited == dfs(location, {}, self.grid) \ {location}
             new_locations == Iter(visited)
         IN  [moves |-> [k \in 1..Len(new_locations) |->
                            add(ant_removed, ant, new_locations[k])],
              searched |-> TRUE, panicked |-> FALSE]

\* ant_moves leaving the cell the ant started on in visited
ant_moves_unremoved(self, location) ==
    IF location \in self.pinned THEN NoSearch
    ELSE LET ant_removed == remove(self.grid, location)
             ant == removed(self.grid, location)
             visited == dfs(location, {}, ant_removed)
             new_locations == Iter(visited)
         IN  IF \E l \in visited : l \notin self.outside
             THEN [moves |-> <<>>, searched |-> TRUE, panicked |-> TRUE]
             ELSE [moves |-> [k \in 1..Len(new_locations) |->
                                add(ant_removed, ant, new_locations[k])],
                   searched |-> TRUE, panicked |-> FALSE]

\* MoveGeneratorDebugger::ant_moves.  The debug_assert! in the loop that
\* builds the boards panics when a visited cell is not in self.outside, and
\* no board is returned then.
ant_moves(self, location) ==
    IF location \in self.pinned THEN NoSearch
    ELSE LET ant_removed == remove(self.grid, location)
             ant == removed(self.grid, location)
             visited == dfs(location, {}, ant_removed) \ {location}
             new_locations == Iter(visited)
         IN  IF \E l \in visited : l \notin self.outside
             THEN [moves |-> <<>>, searched |-> TRUE, panicked |-> TRUE]
             ELSE [moves |-> [k \in 1..Len(new_locations) |->
                                add(ant_removed, ant, new_locations[k])],
                   searched |-> TRUE, panicked |-> FALSE]

(***************************************************************************)
(* The boards the generators are run on, laid out as the fixtures of the   *)
(* tests of move_generator.rs: one white piece, the one that is moved, and *)
(* black pieces around it.                                                 *)
(***************************************************************************)
Origin == HexLocation(0, 0)

\* the kinds of piece that have a generator
Selected == {"Queen", "Grasshopper", "Spider", "Ant"}

Hive == Piece("Beetle", "Black")

\* where the black pieces are put: the ring around the origin and cells
\* east of it
HiveCells ==
    neighbors_of(Origin) \cup {HexLocation(2, -2), HexLocation(2, -1), HexLocation(2, 0),
                               HexLocation(1, 1)}

RECURSIVE SumLen(_, _)
SumLen(g, keys) ==
    IF keys = {} THEN 0
    ELSE LET c == CHOOSE c \in keys : TRUE
         IN  Len(axial(g, c[1], c[2])) + SumLen(g, keys \ {c})

\* the number of pieces on a board
PieceCount(g) == SumLen(g, DOMAIN g)

\* the pieces and locations offered to HexGrid::add
Offered(g) ==
    IF g = HexGrid_new THEN {<<Piece(k, "White"), Origin>> : k \in Selected}
    ELSE {<<Hive, l>> : l \in HiveCells}

\* the locations and pieces given to the storage interface: cells around
\* the centre, and locations off the 60x60 array, the last one with a
\* coordinate that overflows an i8 when the centre is added
GridCells == {HexLocation(0, 0), HexLocation(0, 1)}

OutCells == {HexLocation(30, 0), HexLocation(0, -31), HexLocation(100, 0)}

\* the piece given to add is of another kind after each remove or move_piece,
\* which tells the pieces put on a cell before it from those put on after it
GridPieces == <<Piece("Queen", "White"), Piece("Pillbug", "Black")>>

\* what a call has returned: nothing yet, (), an Option<Piece>, a
\* Vec<Option<Piece>>, a String
NoValue == [kind |-> "no value", value |-> <<>>]

Unit == [kind |-> "()", value |-> <<>>]

OptionPiece(p) == [kind |-> "Option<Piece>", value |-> p]

VecPiece(v) == [kind |-> "Vec<Option<Piece>>", value |-> v]

String(s) == [kind |-> "String", value |-> s]

\* the local variables of a generator, when none is running
Idle ==
    [pc |-> "idle", k |-> 0, direction |-> 0, search_location |-> Origin,
     new_locations |-> <<>>, visited |-> {}, stack |-> <<>>, entered |-> <<>>,
     iter |-> {}, result |-> <<>>]

TypeOK ==
    /\ call.op \in {"new", "ready", "spider_moves", "grasshopper_moves",
                     "queen_moves", "ant_moves"}
    /\ searched \in BOOLEAN
    /\ panicked \in BOOLEAN
    /\ run.pc \in {"idle", "entry", "for", "while", "dfs", "build", "returned"}
    /\ PieceCount(grid) <= MaxPieces
    /\ \A k \in 1..Len(moves) : PieceCount(moves[k]) = PieceCount(generator.grid)

Init ==
    /\ grid = HexGrid_new
    /\ generator = MoveGeneratorDebugger_new
    /\ call = [op |-> "new", location |-> Origin]
    /\ moves = <<>>
    /\ searched = FALSE
    /\ panicked = FALSE
    /\ run = Idle
    /\ ret = NoValue
    /\ placed = [c \in GridCells |-> <<>>]
    /\ count = 0

\* grid.add(piece, location) while the board is laid out
Add ==
    /\ call.op = "new"
    /\ PieceCount(grid) < MaxPieces
    /\ \E o \in Offered(grid) : grid' = add(grid, o[1], o[2])
    /\ UNCHANGED <<generator, call, moves, searched, panicked, run, ret, placed, count>>

\* let generator = MoveGeneratorDebugger::from_grid(&grid)
FromGrid ==
    /\ call.op = "new"
    /\ generator' = from_grid(grid)
    /\ call' = [op |-> "ready", location |-> Origin]
    /\ UNCHANGED <<grid, moves, searched, panicked, run, ret, placed, count>>

\* the debug_assert!s at the head of a generator
Asserts(self, location, kind) ==
    /\ Len(peek(self.grid, location)) = 1
    /\ peek(self.grid, location)[1].piece = kind

\* a generator is called on a location and returns
Returns(op, location, r) ==
    /\ call' = [op |-> op, location |-> location]
    /\ moves' = r.moves
    /\ searched' = r.searched
    /\ panicked' = r.panicked
    /\ UNCHANGED <<grid, generator, run, ret, placed, count>>

\* generator.spider_moves(location)
SpiderMoves ==
    /\ call.op = "ready"
    /\ \E location \in occupied(generator.grid) :
          /\ Asserts(generator, location, "Spider")
          /\ Returns("spider_moves", location, spider_moves(generator, location))

\* generator.grasshopper_moves(location)
GrasshopperMoves ==
    /\ call.op = "ready"
    /\ \E location \in occupied(generator.grid) :
          /\ Asserts(generator, location, "Grasshopper")
          /\ Returns("grasshopper_moves", location, grasshopper_moves(generator, location))

\* generator.queen_moves(location)
QueenMoves ==
    /\ call.op = "ready"
    /\ \E location \in occupied(generator.grid) :
          /\ Asserts(generator, location, "Queen")
          /\ Returns("queen_moves", location, queen_moves(generator, location))

\* generator.ant_moves(location)
AntMoves ==
    /\ call.op = "ready"
    /\ \E location \in occupied(generator.grid) :
          /\ Asserts(generator, location, "Ant")
          /\ Returns("ant_moves", location, ant_moves(generator, location))

\* the caller is done with the boards it was given, and drops them
Consume ==
    /\ call.op \notin {"new", "ready"}
    /\ call' = [op |-> "ready", location |-> Origin]
    /\ moves' = <<>>
    /\ searched' = FALSE
    /\ UNCHANGED <<grid, generator, panicked, run, ret, placed, count>>

Next ==
    \/ Add
    \/ FromGrid
    \/ SpiderMoves
    \/ GrasshopperMoves
    \/ QueenMoves
    \/ AntMoves
    \/ Consume

Spec == Init /\ [][Next]_vars

(***************************************************************************)
(* The generators run step by step: the while loop of grasshopper_moves    *)
(* and the for loop of queen_moves take one step per iteration, the        *)
(* recursions of spider_dfs and of the dfs of ant_moves one step per call  *)
(* and per iteration; run holds the local variables of the generator that  *)
(* is running, and run.stack the frames of the calls of its dfs.           *)
(***************************************************************************)
GeneratorOf(kind) ==
    CASE kind = "Queen" -> "queen_moves"
      [] kind = "Grasshopper" -> "grasshopper_moves"
      [] kind = "Spider" -> "spider_moves"
      [] kind = "Ant" -> "ant_moves"

\* the coordinates of a HexLocation are i8
InI8(location) == \A i \in 1..2 : location[i] \in -128..127

\* grid.add(piece, location) while the board is laid out
RunAdd ==
    /\ call.op = "new"
    /\ PieceCount(grid) < MaxRun
    /\ \E o \in Offered(grid) : grid' = add(grid, o[1], o[2])
    /\ UNCHANGED <<generator, call, moves, searched, panicked, run, ret, placed, count>>

\* a generator is entered
Call ==
    /\ call.op = "ready"
    /\ run.pc = "idle"
    /\ \E location \in occupied(generator.grid) : \E kind \in Selected :
          /\ Asserts(generator, location, kind)
          /\ call' = [op |-> GeneratorOf(kind), location |-> location]
    /\ run' = [Idle EXCEPT !.pc = "entry"]
    /\ UNCHANGED <<grid, generator, moves, searched, panicked, ret, placed, count>>

\* the running generator returns boards, or stops on a panic
Return(boards, search, panic) ==
    /\ moves' = boards
    /\ searched' = search
    /\ panicked' = panic
    /\ run' = [run EXCEPT !.pc = "returned"]
    /\ UNCHANGED <<grid, generator, call, ret, placed, count>>

\* the running generator goes on with new local variables
Continue(locals) ==
    /\ run' = locals
    /\ UNCHANGED <<grid, generator, call, moves, searched, panicked, ret, placed, count>>

\* queen_moves: the pinned test
QueenEntry ==
    /\ call.op = "queen_moves"
    /\ run.pc = "entry"
    /\ IF call.location \in generator.pinned THEN Return(<<>>, FALSE, FALSE)
       ELSE Continue([run EXCEPT !.pc = "for", !.k = 1])

\* queen_moves: an iteration of `for slidable_location`, and the return
\* after the last one
QueenFor ==
    /\ call.op = "queen_moves"
    /\ run.pc = "for"
    /\ LET queen == peek(generator.grid, call.location)[1]
           outside_ == outside(remove(generator.grid, call.location))
           slidable == slidable_locations(generator.grid, call.location)
       IN  IF run.k > Len(slidable)
           THEN Return(Materialize(generator.grid, call.location, queen, run.new_locations),
                       TRUE, FALSE)
           ELSE IF slidable[run.k] \in outside_
                THEN Continue([run EXCEPT !.k = @ + 1,
                                          !.new_locations = Append(@, slidable[run.k])])
                ELSE Continue([run EXCEPT !.k = @ + 1])

\* the frame of the call of dfs that is running
Top == run.stack[Len(run.stack)]

\* the stack with the frame of the running call taken off
Popped == SubSeq(run.stack, 1, Len(run.stack) - 1)

\* spider_moves: the pinned test and the first call of spider_dfs
SpiderEntry ==
    /\ call.op = "spider_moves"
    /\ run.pc = "entry"
    /\ IF call.location \in generator.pinned THEN Return(<<>>, FALSE, FALSE)
       ELSE Continue([run EXCEPT !.pc = "dfs",
                                 !.stack = <<[location |-> call.location, k |-> 0,
                                              visited |-> <<>>]>>])

\* spider_dfs, entered: the test of visited, the push, and the return at
\* depth 3; the depth of a call is the number of frames under its own
SpiderDfsEnter ==
    /\ call.op = "spider_moves"
    /\ run.pc = "dfs"
    /\ run.stack # <<>>
    /\ Top.k = 0
    /\ IF Top.location \in Range(Top.visited) THEN Continue([run EXCEPT !.stack = Popped])
       ELSE IF Len(run.stack) - 1 = 3
            THEN Continue([run EXCEPT !.stack = Popped,
                                      !.new_locations = Append(@, Top.location)])
            ELSE Continue([run EXCEPT !.stack =
                              Append(Popped, [Top EXCEPT !.k = 1,
                                                         !.visited = Append(@, Top.location)])])

\* spider_dfs: the head of an iteration of `for slidable_location`, with the
\* call of spider_dfs it makes, and the return after the last one
SpiderDfsFor ==
    /\ call.op = "spider_moves"
    /\ run.pc = "dfs"
    /\ run.stack # <<>>
    /\ Top.k > 0
    /\ LET spider_removed == remove(generator.grid, call.location)
           slidable == slidable_locations(spider_removed, Top.location)
       IN  IF Top.k > Len(slidable) THEN Continue([run EXCEPT !.stack = Popped])
           ELSE Continue([run EXCEPT !.stack =
                             Append(Append(Popped, [Top EXCEPT !.k = @ + 1]),
                                    [location |-> slidable[Top.k], k |-> 0,
                                     visited |-> Top.visited])])

\* spider_moves after the first call of spider_dfs has returned: the
\* locations are collected into deduplicated, and run.iter is what its
\* iterator has yet to give
SpiderCollect ==
    /\ call.op = "spider_moves"
    /\ run.pc = "dfs"
    /\ run.stack = <<>>
    /\ Continue([run EXCEPT !.pc = "build", !.iter = Range(run.new_locations)])

\* spider_moves: an iteration of `for new_location`, and the return after
\* the last one
SpiderBuild ==
    /\ call.op = "spider_moves"
    /\ run.pc = "build"
    /\ IF run.iter = {} THEN Return(run.result, TRUE, FALSE)
       ELSE LET stack == peek(generator.grid, call.location)
                new_location == CHOOSE e \in run.iter : TRUE
            IN  Continue([run EXCEPT
                    !.iter = @ \ {new_location},
                    !.result = Append(@, add(remove(generator.grid, call.location),
                                             stack[1], new_location))])

\* grasshopper_moves: the pinned test
GrasshopperEntry ==
    /\ call.op = "grasshopper_moves"
    /\ run.pc = "entry"
    /\ IF call.location \in generator.pinned THEN Return(<<>>, FALSE, FALSE)
       ELSE Continue([run EXCEPT !.pc = "for", !.direction = 1])

\* grasshopper_moves: the head of an iteration of `for direction`, and the
\* return after the last one
GrasshopperFor ==
    /\ call.op = "grasshopper_moves"
    /\ run.pc = "for"
    /\ IF run.direction > Len(Direction_all)
       THEN Return(Materialize(generator.grid, call.location,
                               peek(generator.grid, call.location)[1], run.new_locations),
                   TRUE, FALSE)
       ELSE LET search_location == apply(call.location, Direction_all[run.direction])
            IN  IF search_location \in generator.outside
                THEN Continue([run EXCEPT !.direction = @ + 1])
                ELSE Continue([run EXCEPT !.pc = "while",
                                          !.search_location = search_location])

\* grasshopper_moves: one test of the while loop, and an iteration of it or
\* the rest of the body of `for direction`
GrasshopperWhile ==
    /\ call.op = "grasshopper_moves"
    /\ run.pc = "while"
    /\ IF run.search_location \notin generator.outside
       THEN LET next == apply(run.search_location, Direction_all[run.direction])
            IN  IF InI8(next) THEN Continue([run EXCEPT !.search_location = next])
                ELSE Return(<<>>, TRUE, TRUE)
       ELSE Continue([run EXCEPT !.pc = "for", !.direction = @ + 1,
                                 !.new_locations = Append(@, run.search_location)])

\* ant_moves: the pinned test and the first call of dfs
AntEntry ==
    /\ call.op = "ant_moves"
    /\ run.pc = "entry"
    /\ IF call.location \in generator.pinned THEN Return(<<>>, FALSE, FALSE)
       ELSE Continue([run EXCEPT !.pc = "dfs",
                                 !.stack = <<[location |-> call.location, k |-> 0]>>])

\* dfs called on every location, visited or not
AntDfsEnter_again ==
    /\ call.op = "ant_moves"
    /\ run.pc = "dfs"
    /\ run.stack # <<>>
    /\ Top.k = 0
    /\ Len(run.stack) <= Cardinality(generator.outside) + 2
    /\ Continue([run EXCEPT !.visited = @ \cup {Top.location},
                            !.entered = Append(@, Top.location),
                            !.stack = Append(Popped, [Top EXCEPT !.k = 1])])

\* dfs, entered: the test of visited and the insertion
AntDfsEnter ==
    /\ call.op = "ant_moves"
    /\ run.pc = "dfs"
    /\ run.stack # <<>>
    /\ Top.k = 0
    /\ IF Top.location \in run.visited THEN Continue([run EXCEPT !.stack = Popped])
       ELSE Continue([run EXCEPT !.visited = @ \cup {Top.location},
                                 !.entered = Append(@, Top.location),
                                 !.stack = Append(Popped, [Top EXCEPT !.k = 1])])

\* dfs: the head of an iteration of `for slidable_location`, with the call of
\* dfs it makes, and the return after the last one
AntDfsFor ==
    /\ call.op = "ant_moves"
    /\ run.pc = "dfs"
    /\ run.stack # <<>>
    /\ Top.k > 0
    /\ LET ant_removed == remove(generator.grid, call.location)
           slidable == slidable_locations(ant_removed, Top.location)
           advanced == Append(Popped, [Top EXCEPT !.k = @ + 1])
       IN  IF Top.k > Len(slidable) THEN Continue([run EXCEPT !.stack = Popped])
           ELSE IF Cardinality(get_neighbors(ant_removed, slidable[Top.k])) > 0
                THEN Continue([run EXCEPT !.stack =
                                  Append(advanced, [location |-> slidable[Top.k], k |-> 0])])
                ELSE Continue([run EXCEPT !.stack = advanced])

\* ant_moves after the first call of dfs has returned: the origin is taken
\* out of visited, and run.iter is what the iterator of visited has yet to give
AntCollect ==
    /\ call.op = "ant_moves"
    /\ run.pc = "dfs"
    /\ run.stack = <<>>
    /\ Continue([run EXCEPT !.pc = "build",
                            !.visited = @ \ {call.location},
                            !.iter = run.visited \ {call.location}])

\* ant_moves: an iteration of `for location`, with its debug_assert!, and
\* the return after the last one
AntBuild ==
    /\ call.op = "ant_moves"
    /\ run.pc = "build"
    /\ IF run.iter = {} THEN Return(run.result, TRUE, FALSE)
       ELSE LET ant_removed == remove(generator.grid, call.location)
                ant == removed(generator.grid, call.location)
                location == CHOOSE e \in run.iter : TRUE
            IN  IF location \notin generator.outside THEN Return(<<>>, TRUE, TRUE)
                ELSE Continue([run EXCEPT
                         !.iter = @ \ {location},
                         !.result = Append(@, add(ant_removed, ant, location))])

\* the caller is done with the boards it was given, and drops them
Done ==
    /\ run.pc = "returned"
    /\ call' = [op |-> "ready", location |-> Origin]
    /\ moves' = <<>>
    /\ searched' = FALSE
    /\ run' = Idle
    /\ UNCHANGED <<grid, generator, panicked, ret, placed, count>>

\* the steps of a generator between its entry and its return
Body ==
    \/ QueenEntry
    \/ QueenFor
    \/ SpiderEntry
    \/ SpiderDfsEnter
    \/ SpiderDfsFor
    \/ SpiderCollect
    \/ SpiderBuild
    \/ GrasshopperEntry
    \/ GrasshopperFor
    \/ GrasshopperWhile
    \/ AntEntry
    \/ AntDfsEnter
    \/ AntDfsFor
    \/ AntCollect
    \/ AntBuild

RunNext ==
    \/ RunAdd
    \/ FromGrid
    \/ Call
    \/ QueenEntry
    \/ QueenFor
    \/ SpiderEntry
    \/ SpiderDfsEnter
    \/ SpiderDfsFor
    \/ SpiderCollect
    \/ SpiderBuild
    \/ GrasshopperEntry
    \/ GrasshopperFor
    \/ GrasshopperWhile
    \/ AntEntry
    \/ AntDfsEnter
    \/ AntDfsFor
    \/ AntCollect
    \/ AntBuild
    \/ Done

\* a call, once made, runs on: nothing else runs in the thread that made it
SpecRun == Init /\ [][RunNext]_vars /\ WF_vars(Body)

(***************************************************************************)
(* hex_grid.rs: the board diagram.  A String is the sequence of the        *)
(* strings pushed onto it.                                                 *)
(***************************************************************************)
\* PieceType::to_str
PieceType_to_str(piece) ==
    CASE piece = "Queen" -> "Q"
      [] piece = "Grasshopper" -> "G"
      [] piece = "Spider" -> "S"
      [] piece = "Beetle" -> "B"
      [] piece = "Ant" -> "A"
      [] piece = "Pillbug" -> "P"
      [] piece = "Ladybug" -> "L"
      [] piece = "Mosquito" -> "M"

\* str::to_lowercase on the letters of PieceType::to_str
to_lowercase(str) ==
    CASE str = "Q" -> "q"
      [] str = "G" -> "g"
      [] str = "S" -> "s"
      [] str = "B" -> "b"
      [] str = "A" -> "a"
      [] str = "P" -> "p"
      [] str = "L" -> "l"
      [] str = "M" -> "m"

\* Piece::to_str; to_uppercase leaves the letters of PieceType::to_str as they are
Piece_to_str(p) ==
    IF p.color = "White" THEN PieceType_to_str(p.piece)
    ELSE to_lowercase(PieceType_to_str(p.piece))

\* HexGrid::oddr_to_axial; row & 1 is row % 2 for a row that is not negative
oddr_to_axial(row, col) ==
    LET q == AsI8(col) - (AsI8(row) - (AsI8(row) % 2)) \div 2
        r == AsI8(row)
    IN  <<q, r>>

\* HexGrid::oddr
oddr(g, row, col) ==
    LET a == oddr_to_axial(row, col)
    IN  IF a[1] < 0 THEN <<>> ELSE axial(g, a[1], a[2])

Max(S) == CHOOSE i \in S : \A j \in S : i >= j

\* HexGrid::bounds.  The loops over the 60x60 rows and columns find the
\* cells that hold a piece; they are the cells of DOMAIN g whose row and
\* column are in 0..59.
bounds(g) ==
    LET seen == {rc \in {<<c[2], c[1] + (c[2] - (c[2] % 2)) \div 2>> : c \in DOMAIN g} :
                    /\ rc[1] \in 0..(HEX_GRID_SIZE - 1)
                    /\ rc[2] \in 0..(HEX_GRID_SIZE - 1)
                    /\ Len(oddr(g, rc[1], rc[2])) > 0}
        rows == {rc[1] : rc \in seen}
        cols == {rc[2] : rc \in seen}
    IN  <<<<Min(rows \cup {HEX_GRID_SIZE}), Min(cols \cup {HEX_GRID_SIZE})>>,
          <<Max(rows \cup {0}), Max(cols \cup {0})>>>>

\* what the body of `for col` pushes for a cell
Token(g, row, col) ==
    LET pieces == oddr(g, row, col)
    IN  CASE Len(pieces) = 0 -> "."
          [] Len(pieces) = 1 -> Piece_to_str(pieces[1])
          [] OTHER -> ToString(Len(pieces))

\* board_string indenting the odd rows of the diagram, the top row being row 0
board_string_relative(g) ==
    IF is_empty(g) THEN <<".">>
    ELSE LET b == bounds(g)
             left == b[1][2] - 1
             right == b[2][2] + 1
             bottom == b[2][1] + 1
             top == b[1][1] - 1
             line(row) ==
                 (IF (row - top) % 2 = 1 THEN <<" ">> ELSE <<>>)
                    \o [i \in 1..(2 * (right - left) + 1) |->
                           IF i % 2 = 1 THEN Token(g, row, left + (i - 1) \div 2) ELSE " "]
                    \o <<"\n">>
             lines[row \in top..(bottom + 1)] ==
                 IF row > bottom THEN <<>> ELSE line(row) \o lines[row + 1]
         IN  lines[top]

\* HexGrid::board_string; line(row) is what one iteration of `for row`
\* pushes, lines[row] what the iterations from row on push
board_string(g) ==
    IF is_empty(g) THEN <<".">>
    ELSE LET b == bounds(g)
             left == b[1][2] - 1
             right == b[2][2] + 1
             bottom == b[2][1] + 1
             top == b[1][1] - 1
             line(row) ==
                 (IF row % 2 = 1 THEN <<" ">> ELSE <<>>)
                    \o [i \in 1..(2 * (right - left) + 1) |->
                           IF i % 2 = 1 THEN Token(g, row, left + (i - 1) \div 2) ELSE " "]
                    \o <<"\n">>
             lines[row \in top..(bottom + 1)] ==
                 IF row > bottom THEN <<>> ELSE line(row) \o lines[row + 1]
         IN  lines[top]

(***************************************************************************)
(* The storage interface of HexGrid, called on a board by itself: add,     *)
(* remove, peek, move_piece and board_string, on cells around the centre   *)
(* and on locations off the array.  An index out of the array and          *)
(* Option::unwrap on None are panics; nothing is called after a panic.     *)
(* placed is the history of a cell: the pieces put on it that have not     *)
(* been taken off, in the order they were put, the earliest one taken off  *)
(* first.                                                                  *)
(***************************************************************************)
\* self.grid[y][x] is inside the array
InArray(location) ==
    LET c == centralize(location)
    IN  /\ c[1] \in 0..(HEX_GRID_SIZE - 1)
        /\ c[2] \in 0..(HEX_GRID_SIZE - 1)

\* the stack of a location has no slot left
Full(g, location) ==
    LET c == centralize(location) IN FreeSlots(Slots(g, c[1], c[2])) = {}

\* the history after a piece is put on a location, and after one is taken off
Put(history, g, piece, location) ==
    IF location \in DOMAIN history /\ ~Full(g, location)
    THEN [history EXCEPT ![location] = Append(@, piece)]
    ELSE history

Taken(history, location) ==
    IF location \in DOMAIN history /\ history[location] # <<>>
    THEN [history EXCEPT ![location] = Tail(@)]
    ELSE history

\* a call panics: the board is left as the call had made it
Panic(op, location, g) ==
    /\ panicked' = TRUE
    /\ grid' = g
    /\ call' = [op |-> op, location |-> location]
    /\ ret' = NoValue
    /\ UNCHANGED <<generator, moves, searched, run, placed, count>>

\* a call of the storage interface returns
Returned_(op, location, g, value, history, adds) ==
    /\ grid' = g
    /\ call' = [op |-> op, location |-> location]
    /\ ret' = value
    /\ placed' = history
    /\ count' = adds
    /\ UNCHANGED <<generator, moves, searched, panicked, run>>

\* grid.add(piece, location)
GridAdd ==
    /\ ~panicked
    /\ PieceCount(grid) < MaxHeld
    /\ \E location \in GridCells \cup OutCells :
          LET piece == GridPieces[(count % Len(GridPieces)) + 1]
          IN  IF ~InArray(location) THEN Panic("add", location, grid)
              ELSE Returned_("add", location, add(grid, piece, location), Unit,
                             Put(placed, grid, piece, location), count)

\* grid.remove(location)
GridRemove ==
    /\ ~panicked
    /\ count < MaxTakes
    /\ \E location \in GridCells \cup OutCells :
          IF ~InArray(location) THEN Panic("remove", location, grid)
          ELSE Returned_("remove", location, remove(grid, location),
                         OptionPiece(removed(grid, location)),
                         Taken(placed, location), count + 1)

\* grid.peek(location)
GridPeek ==
    /\ ~panicked
    /\ \E location \in GridCells \cup OutCells :
          IF ~InArray(location) THEN Panic("peek", location, grid)
          ELSE Returned_("peek", location, grid, VecPiece(peek(grid, location)),
                         placed, count)

\* grid.move_piece(from, to)
MovePiece ==
    /\ ~panicked
    /\ count < MaxTakes
    /\ \E from \in GridCells \cup OutCells, to \in GridCells \cup OutCells :
          LET piece == removed(grid, from)
              lifted == remove(grid, from)
          IN  /\ IF ~InArray(from) \/ piece = None THEN Panic("move_piece", to, grid)
                 ELSE IF ~InArray(to) THEN Panic("move_piece", to, lifted)
                 ELSE Returned_("move_piece", to, add(lifted, piece, to), Unit,
                                Put(Taken(placed, from), lifted, piece, to),
                                count + 1)

\* grid.board_string()
BoardString ==
    /\ ~panicked
    /\ Returned_("board_string", Origin, grid, String(board_string(grid)), placed, count)

GridNext ==
    \/ GridAdd
    \/ GridRemove
    \/ GridPeek
    \/ MovePiece
    \/ BoardString

SpecGrid == Init /\ [][GridNext]_vars

(***************************************************************************)
(* Vocabulary of the properties.                                           *)
(***************************************************************************)
Generators == {"spider_moves", "grasshopper_moves", "queen_moves", "ant_moves"}

\* a generator has just returned `moves` for the piece at call.location
Returned == call.op \in Generators

\* the cell of board m where it holds more than board g does
Landing(g, m) == {d \in occupied(m) : Len(peek(m, d)) > Len(peek(g, d))}

\* the destination cells of the boards in ms, against the input board g
DestinationsOf(g, ms) == UNION {Landing(g, ms[k]) : k \in 1..Len(ms)}

Destinations == DestinationsOf(generator.grid, moves)

\* the two cells adjacent to both ends of the edge a-b
Flanks(a, b) == neighbors_of(a) \cap neighbors_of(b)

Occupied(g, l) == Len(peek(g, l)) > 0

\* the edge a-b is a gate of board g: both cells flanking it are occupied
Gate(g, a, b) == \A f \in Flanks(a, b) : Occupied(g, f)

(***************************************************************************)
(* C1  Connectivity preservation: when the input board is connected, every *)
(* board a generator returns has its occupied cells in one cluster.        *)
(***************************************************************************)
C1_ConnectivityPreserved ==
    (Returned /\ is_connected(generator.grid))
        => \A k \in 1..Len(moves) : is_connected(moves[k])

(***************************************************************************)
(* C2  Pinned exclusion: for a cell in pinned() of the board, a generator  *)
(* returns no board, and returns before any search.                        *)
(***************************************************************************)
C2_PinnedExclusion ==
    (Returned /\ call.location \in pinned(generator.grid))
        => (moves = <<>> /\ ~searched)

\* a generator was called on a pinned piece that has an open, ungated edge
C2_Witness ==
    /\ Returned
    /\ call.location \in pinned(generator.grid)
    /\ \E n \in neighbors_of(call.location) :
          /\ ~Occupied(generator.grid, n)
          /\ ~Gate(generator.grid, call.location, n)

(***************************************************************************)
(* C3  Frame: a returned board is the input board with the selected piece  *)
(* taken off its cell, which is left empty, and put on a cell that was     *)
(* empty; every other cell is as it was, no piece is gained or lost, and   *)
(* the call leaves the generator as it was.                                *)
(***************************************************************************)
\* board m is board g with the one piece of cell l moved to an empty cell
OneChange(g, l, m) ==
    \E d \in occupied(m) :
        /\ d # l
        /\ peek(g, d) = <<>>
        /\ peek(m, d) = peek(g, l)
        /\ peek(m, l) = <<>>
        /\ \A c \in (occupied(g) \cup occupied(m)) \ {l, d} : peek(m, c) = peek(g, c)
        /\ PieceCount(m) = PieceCount(g)

C3_Frame ==
    [][(call.op = "ready" /\ call'.op \in Generators)
          => /\ generator' = generator
             /\ \A k \in 1..Len(moves') : OneChange(generator.grid, call'.location, moves'[k])]_vars

\* a generator returned boards for a piece of a hive of several pieces
C3_Witness ==
    /\ Returned
    /\ Len(moves) > 1
    /\ PieceCount(generator.grid) > 2

(***************************************************************************)
(* C4  Queen: for an unpinned queen the destinations are the neighbours n  *)
(* of its cell that are unoccupied, whose edge is not a gate, and that     *)
(* touch an occupied cell other than the queen's; one board for each.      *)
(***************************************************************************)
QueenTargets(g, l) ==
    {n \in neighbors_of(l) :
        /\ ~Occupied(g, n)
        /\ ~Gate(g, l, n)
        /\ \E o \in neighbors_of(n) \ {l} : Occupied(g, o)}

C4_QueenDestinations ==
    (call.op = "queen_moves" /\ call.location \notin pinned(generator.grid))
        => /\ Destinations = QueenTargets(generator.grid, call.location)
           /\ Len(moves) = Cardinality(QueenTargets(generator.grid, call.location))

\* an unpinned queen that moves, with one neighbour closed by a gate and
\* another one open but touching nothing but the queen
C4_Witness ==
    /\ call.op = "queen_moves"
    /\ call.location \notin pinned(generator.grid)
    /\ moves # <<>>
    /\ \E n \in neighbors_of(call.location) :
          ~Occupied(generator.grid, n) /\ Gate(generator.grid, call.location, n)
    /\ \E n \in neighbors_of(call.location) :
          /\ ~Occupied(generator.grid, n)
          /\ ~Gate(generator.grid, call.location, n)
          /\ n \notin Destinations

(***************************************************************************)
(* C5  Ant: for an unpinned ant the destinations are the cells, other than *)
(* its own, that a chain of slides on the board without the ant reaches    *)
(* from its cell, each cell entered touching an occupied cell of that      *)
(* board; one board for each, and every destination touches the hive.      *)
(***************************************************************************)
\* one slide on board g from a to b, b in contact with the hive
Crawl(g, a, b) ==
    /\ b \in neighbors_of(a)
    /\ ~Occupied(g, b)
    /\ ~Gate(g, a, b)
    /\ \E o \in neighbors_of(b) : Occupied(g, o)

\* the cells that chains of such slides reach from the cells of seen
RECURSIVE Trail(_, _)
Trail(g, seen) ==
    LET more == {b \in UNION {neighbors_of(a) : a \in seen} :
                    b \notin seen /\ \E a \in seen : Crawl(g, a, b)}
    IN  IF more = {} THEN seen ELSE Trail(g, seen \cup more)

AntTargets(g, l) == Trail(remove(g, l), {l}) \ {l}

C5_AntDestinations ==
    (call.op = "ant_moves" /\ call.location \notin pinned(generator.grid))
        => /\ Destinations = AntTargets(generator.grid, call.location)
           /\ Len(moves) = Cardinality(AntTargets(generator.grid, call.location))
           /\ \A d \in Destinations :
                 \E o \in neighbors_of(d) \ {call.location} : Occupied(generator.grid, o)

\* an unpinned ant that reaches a cell not next to its own, and has an open
\* neighbour it does not enter because the cell touches no other piece
C5_Witness ==
    /\ call.op = "ant_moves"
    /\ call.location \notin pinned(generator.grid)
    /\ Destinations \ neighbors_of(call.location) # {}
    /\ \E n \in neighbors_of(call.location) :
          /\ ~Occupied(generator.grid, n)
          /\ ~Gate(generator.grid, call.location, n)
          /\ n \notin Destinations

(***************************************************************************)
(* C6  Spider path length: every board a spider returns has the spider at  *)
(* the end of a path of exactly 3 slides on the board without the spider,  *)
(* the origin and the three cells entered all different, and for an        *)
(* unpinned spider every such end is returned; a cell that only paths of 1 *)
(* or 2 slides reach is never a destination.                               *)
(***************************************************************************)
\* one slide on board g from a to b
Slide(g, a, b) ==
    /\ b \in neighbors_of(a)
    /\ ~Occupied(g, b)
    /\ ~Gate(g, a, b)

\* the cells one slide away from a
Step(g, a) == {b \in neighbors_of(a) : Slide(g, a, b)}

\* the ends of the paths of exactly 3 slides from l that enter 3 cells, all
\* different and different from l
ThreeSlides(g, l) ==
    UNION {UNION {Step(g, b) \ {l, a} : b \in Step(g, a) \ {l}} : a \in Step(g, l)}

\* the cells that 1 or 2 slides reach from l
Near(g, l) == (Step(g, l) \cup UNION {Step(g, a) : a \in Step(g, l)}) \ {l}

C6_SpiderPathLength ==
    call.op = "spider_moves"
        => LET g == remove(generator.grid, call.location)
               spider == peek(generator.grid, call.location)[1]
               ends == ThreeSlides(g, call.location)
           IN  /\ \A k \in 1..Len(moves) : \E c \in ends : moves[k] = add(g, spider, c)
               /\ call.location \notin pinned(generator.grid) => Destinations = ends
               /\ Destinations \cap (Near(g, call.location) \ ends) = {}

\* a spider that moves, to a cell that is three cells away and to a cell
\* next to its own
C6_Witness ==
    /\ call.op = "spider_moves"
    /\ Destinations \cap neighbors_of(call.location) # {}
    /\ apply(apply(apply(call.location, "E"), "E"), "E") \in Destinations

(***************************************************************************)
(* C7  Grasshopper directionality: for an unpinned grasshopper, a          *)
(* direction whose adjacent cell is unoccupied yields no candidate; in a   *)
(* direction with a line of k >= 1 occupied cells the only candidate is    *)
(* the cell right past the k-th one; the number of boards is the number of *)
(* directions whose adjacent cell is occupied.                             *)
(***************************************************************************)
\* the first unoccupied cell met from c on, going in direction d
RECURSIVE Past(_, _, _)
Past(g, c, d) == IF Occupied(g, c) THEN Past(g, apply(c, d), d) ELSE c

\* the n cells in direction d from l
RECURSIVE Ray(_, _, _)
Ray(l, d, n) == IF n = 0 THEN {} ELSE {apply(l, d)} \cup Ray(apply(l, d), d, n - 1)

C7_GrasshopperDirections ==
    (call.op = "grasshopper_moves" /\ call.location \notin pinned(generator.grid))
        => LET g == generator.grid
               l == call.location
               over == {d \in Range(Direction) : Occupied(g, apply(l, d))}
           IN  /\ \A d \in Range(Direction) :
                     Destinations \cap Ray(l, d, PieceCount(g) + 1) =
                         IF d \in over THEN {Past(g, apply(l, d), d)} ELSE {}
               /\ Len(moves) = Cardinality(over)

\* an unpinned grasshopper with a line of two pieces to jump over in one
\* direction and nothing to jump over in another
C7_Witness ==
    /\ call.op = "grasshopper_moves"
    /\ call.location \notin pinned(generator.grid)
    /\ \E d \in Range(Direction) :
          /\ Occupied(generator.grid, apply(call.location, d))
          /\ Occupied(generator.grid, apply(apply(call.location, d), d))
          /\ apply(apply(apply(call.location, d), d), d) \in Destinations
    /\ \E d \in Range(Direction) : ~Occupied(generator.grid, apply(call.location, d))

(***************************************************************************)
(* C8  Ant/queen agreement: on the same board and cell, holding an ant in  *)
(* one run and a queen in the other, the ant's destinations that are one   *)
(* slide from the cell are the queen's destinations, so the ant's          *)
(* destinations include the queen's.                                       *)
(***************************************************************************)
\* board g with the piece of cell l replaced by one of another kind
Recast(g, l, kind) == add(remove(g, l), Piece(kind, peek(g, l)[1].color), l)

\* the destinations of the ant at l of board g, and of the queen
AntRun(g, l) == DestinationsOf(g, ant_moves(from_grid(g), l).moves)

QueenRun(g, l) == DestinationsOf(g, queen_moves(from_grid(g), l).moves)

C8_AntQueenAgreement ==
    /\ call.op = "ant_moves"
          => LET q == QueenRun(Recast(generator.grid, call.location, "Queen"), call.location)
             IN  /\ Destinations \cap Step(remove(generator.grid, call.location), call.location) = q
                 /\ q \subseteq Destinations
    /\ call.op = "queen_moves"
          => LET a == AntRun(Recast(generator.grid, call.location, "Ant"), call.location)
             IN  /\ a \cap Step(remove(generator.grid, call.location), call.location) = Destinations
                 /\ Destinations \subseteq a

\* an ant that reaches cells one slide away and cells further away, where a
\* queen has somewhere to go
C8_Witness ==
    /\ call.op = "ant_moves"
    /\ QueenRun(Recast(generator.grid, call.location, "Queen"), call.location) # {}
    /\ Destinations \ Step(remove(generator.grid, call.location), call.location) # {}
    /\ Step(remove(generator.grid, call.location), call.location) \ Destinations # {}

(***************************************************************************)
(* C9  No two boards in the collection a generator returns are equal.      *)
(***************************************************************************)
C9_NoDuplicateBoards ==
    Returned => \A i, j \in 1..Len(moves) : i # j => moves[i] # moves[j]

\* a spider returned boards after several of its paths ended on one cell
C9_Witness ==
    /\ call.op = "spider_moves"
    /\ moves # <<>>
    /\ Len(spider_dfs(call.location, <<>>, 0, remove(generator.grid, call.location)))
          > Len(moves)

(***************************************************************************)
(* C10  Gate rule: when every unoccupied neighbour of the source is behind *)
(* a gate, queen_moves, spider_moves and ant_moves return no board, pinned *)
(* or not; and every destination of theirs is reached from the source by   *)
(* slides none of which goes through a gate.                               *)
(***************************************************************************)
Sliders == {"queen_moves", "spider_moves", "ant_moves"}

\* every unoccupied cell around l is behind a gate of board g
Enclosed(g, l) == \A n \in neighbors_of(l) : ~Occupied(g, n) => Gate(g, l, n)

\* the cells of F that slides through no gate reach from the cells of seen,
\* the cells of edge being the ones not expanded yet
RECURSIVE Sweep(_, _, _, _)
Sweep(g, F, seen, edge) ==
    LET more == (UNION {Step(g, a) : a \in edge} \cap F) \ seen
    IN  IF more = {} THEN seen ELSE Sweep(g, F, seen \cup more, more)

\* the cells a slider can be on: around the hive, or within 3 cells of l
Field(g, l) ==
    LET one == neighbors_of(l)
        two == UNION {neighbors_of(a) : a \in one}
    IN  outside(g) \cup one \cup two \cup UNION {neighbors_of(a) : a \in two}

C10_GateRule ==
    call.op \in Sliders
        => LET g == remove(generator.grid, call.location)
           IN  /\ Enclosed(generator.grid, call.location) => moves = <<>>
               /\ Destinations \subseteq
                     Sweep(g, Field(g, call.location), {call.location}, {call.location})

\* a slider that is not pinned, has an unoccupied cell next to it, and is
\* enclosed by gates
C10_Witness ==
    /\ call.op \in Sliders
    /\ call.location \notin pinned(generator.grid)
    /\ \E n \in neighbors_of(call.location) : ~Occupied(generator.grid, n)
    /\ Enclosed(generator.grid, call.location)

(***************************************************************************)
(* C11  A spider crawls along the hive: when the board has a piece besides *)
(* the spider, every destination of spider_moves is adjacent to an         *)
(* occupied cell of the board without the spider.                          *)
(***************************************************************************)
\* l touches the hive of board g
Touches(g, l) == get_neighbors(g, l) # {}

C11_SpiderCrawlsHive ==
    call.op = "spider_moves"
        => LET g == remove(generator.grid, call.location)
           IN  occupied(g) # {} => \A d \in Destinations : Touches(g, d)

(***************************************************************************)
(* C16  A spider does not come back to the cell it left: no board that     *)
(* spider_moves returns has a piece on the spider's original cell or is    *)
(* the input board, and every destination is the end of 3 slides none of   *)
(* which enters the original cell.                                         *)
(***************************************************************************)
\* the ends of 3 slides from l, on board g, that stay off l
Detour(g, l) ==
    UNION {UNION {Step(g, b) \ {l} : b \in Step(g, a) \ {l}} : a \in Step(g, l)}

C16_SpiderLeavesOrigin ==
    call.op = "spider_moves"
        => LET g == remove(generator.grid, call.location)
           IN  /\ \A k \in 1..Len(moves) :
                     /\ peek(moves[k], call.location) = <<>>
                     /\ moves[k] # generator.grid
               /\ call.location \notin Destinations
               /\ Destinations \subseteq Detour(g, call.location)

\* a spider that moved, on a board where 3 slides lead round a cell next to
\* it and back to the cell it started on
C16_Witness ==
    /\ call.op = "spider_moves"
    /\ moves # <<>>
    /\ LET g == remove(generator.grid, call.location)
       IN  \E a \in Step(g, call.location) :
              \E b \in Step(g, a) \ {call.location} : call.location \in Step(g, b)

(***************************************************************************)
(* C19  The assertion of ant_moves holds: ant_moves never panics, and      *)
(* every destination it returns is in the outside set the generator took   *)
(* from the board with the ant on it, so it is unoccupied on that board    *)
(* and adjacent to an occupied cell of it.                                 *)
(***************************************************************************)
C19_AntAssertion ==
    /\ ~panicked
    /\ call.op = "ant_moves"
          => \A d \in Destinations :
                /\ d \in generator.outside
                /\ ~Occupied(generator.grid, d)
                /\ Touches(generator.grid, d)

\* an ant that moved to a cell next to the one it left
C19_Witness ==
    /\ call.op = "ant_moves"
    /\ ~panicked
    /\ Destinations \cap neighbors_of(call.location) # {}

(***************************************************************************)
(* C17  Generation is total: a generator that is entered returns, without  *)
(* a panic, the boards of its definition.  The walk of a grasshopper goes  *)
(* over occupied cells only, at most as many as the board has pieces, and  *)
(* every cell it lands on is an unoccupied cell of the perimeter; the      *)
(* search of an ant enters no cell twice, stays on the perimeter and the   *)
(* cell of the ant, and its recursion is no deeper than they are many; the *)
(* recursion of a spider is no deeper than 3 calls under the first; the    *)
(* loops that build the boards end with the set they iterate.              *)
(***************************************************************************)
\* the generator of call.op, in one step
Whole ==
    CASE call.op = "queen_moves" -> queen_moves(generator, call.location)
      [] call.op = "spider_moves" -> spider_moves(generator, call.location)
      [] call.op = "grasshopper_moves" -> grasshopper_moves(generator, call.location)
      [] call.op = "ant_moves" -> ant_moves(generator, call.location)

Running == run.pc \notin {"idle", "returned"}

NoRepeat(s) == \A i, j \in 1..Len(s) : s[i] = s[j] => i = j

C17_Measure ==
    /\ run.pc = "while"
          => LET d == Direction_all[run.direction]
                 n == PieceCount(generator.grid)
             IN  /\ run.search_location \in Ray(call.location, d, n)
                 /\ Past(generator.grid, apply(call.location, d), d)
                       \in {run.search_location}
                              \cup Ray(run.search_location, d, n)
    /\ (run.pc \in {"for", "while"} /\ call.op = "grasshopper_moves")
          => \A i \in 1..Len(run.new_locations) :
                /\ run.new_locations[i] \in generator.outside
                /\ ~Occupied(generator.grid, run.new_locations[i])
    /\ (run.pc = "dfs" /\ call.op = "spider_moves")
          => /\ Len(run.stack) <= 4
             /\ \A i \in 1..Len(run.stack) :
                   /\ NoRepeat(run.stack[i].visited)
                   /\ Len(run.stack[i].visited) <= 3
    /\ (run.pc = "dfs" /\ call.op = "ant_moves")
          => /\ NoRepeat(run.entered)
             /\ run.visited = Range(run.entered)
             /\ run.visited \subseteq generator.outside \cup {call.location}
             /\ Len(run.stack) <= Cardinality(generator.outside) + 2
    /\ run.pc = "build"
          => Len(run.result) + Cardinality(run.iter)
                = Cardinality(IF call.op = "ant_moves" THEN run.visited
                              ELSE Range(run.new_locations))
    /\ run.pc = "returned"
          => /\ ~panicked
             /\ moves = Whole.moves
             /\ searched = Whole.searched

OutOfRange(location) ==
    \E i \in 1..2 :
        location[i] \notin (0 - HEX_GRID_CENTER[i])..(HEX_GRID_SIZE - HEX_GRID_CENTER[i] - 1)

\* the board holds a piece
Holds(g) == PieceCount(g) > 0

(***************************************************************************)
(* C12  Capacity overflow: add on a location whose stack holds MAX_HEIGHT  *)
(* pieces returns something else than a successful add does and leaves     *)
(* the board as it is, and a move_piece that returns leaves the number of  *)
(* pieces on the board as it is.                                           *)
(***************************************************************************)
C12_OverflowRejected ==
    [][/\ (call'.op = "add" /\ ~panicked' /\ Full(grid, call'.location))
            => (ret' # Unit /\ grid' = grid)
       /\ (call'.op = "move_piece" /\ ~panicked')
            => PieceCount(grid') = PieceCount(grid)]_vars

(***************************************************************************)
(* C13  Out-of-range access is not fatal: peek, remove and add on a        *)
(* location off the 60x60 storage do not panic, return a value, and leave  *)
(* the board as it is.                                                     *)
(***************************************************************************)
C13_OutOfRangeNotFatal ==
    [][(call'.op \in {"peek", "remove", "add"} /\ OutOfRange(call'.location))
          => (~panicked' /\ ret'.kind # NoValue.kind /\ grid' = grid)]_vars

(***************************************************************************)
(* C14  Stack order is insertion order: peek returns the pieces that are   *)
(* still on the location in the order they were put on it, and remove      *)
(* returns the one put on it first, None when there is none.               *)
(***************************************************************************)
C14_InsertionOrder ==
    /\ []((call.op = "peek" /\ ~panicked) => ret.value = placed[call.location])
    /\ [][(call'.op = "remove" /\ ~panicked')
             => ret'.value = IF placed[call'.location] = <<>> THEN None
                             ELSE Head(placed[call'.location])]_vars

(***************************************************************************)
(* The rows of a board diagram.                                            *)
(***************************************************************************)
\* where the rows of a diagram end
Breaks(board) == {i \in 1..Len(board) : board[i] = "\n"}

RowCount(board) == Cardinality(Breaks(board))

\* the k-th row of a diagram, from the top, without its "\n"
RowOf(board, k) ==
    LET end == CHOOSE i \in Breaks(board) :
                   Cardinality({j \in Breaks(board) : j < i}) = k - 1
        before == {j \in Breaks(board) : j < end}
    IN  SubSeq(board, IF before = {} THEN 1 ELSE Max(before) + 1, end - 1)

Indented(row) == row # <<>> /\ row[1] = " "

\* the tokens of a row: what is between its single spaces, after the indent
Tokens(row) ==
    LET body == IF Indented(row) THEN Tail(row) ELSE row
    IN  [j \in 1..((Len(body) + 1) \div 2) |-> body[2 * j - 1]]

Spaced(row) ==
    LET body == IF Indented(row) THEN Tail(row) ELSE row
    IN  /\ Len(body) % 2 = 1
        /\ \A i \in 1..Len(body) : (i % 2 = 0) <=> (body[i] = " ")

\* the row and column, in the odd-r layout, of the cell grid[y][x]
Offset(c) == <<c[2], c[1] + (c[2] - (c[2] % 2)) \div 2>>

\* the cells of a board that hold a piece, by row and column
HeldCells(g) == {Offset(c) : c \in {c \in DOMAIN g : UsedSlots(g[c]) # {}}}

\* the stack of the cell at a row and column
StackAt(g, row, col) ==
    LET at == {c \in DOMAIN g : Offset(c) = <<row, col>>}
    IN  IF at = {} THEN <<>> ELSE LET c == CHOOSE c \in at : TRUE IN axial(g, c[1], c[2])

\* a diagram shows the bounding box of the cells of g that hold a piece, with
\* a margin of one cell on each side, a row of the same number of tokens for
\* each row of the box, and the rows of `shifted` indented
Diagram(board, g, shifted(_, _)) ==
    LET rows == {rc[1] : rc \in HeldCells(g)}
        cols == {rc[2] : rc \in HeldCells(g)}
        top == Min(rows) - 1
        left == Min(cols) - 1
        height == Max(rows) - Min(rows) + 3
        width == Max(cols) - Min(cols) + 3
    IN  /\ RowCount(board) = height
        /\ Len(board) = Max(Breaks(board))
        /\ \A k \in 1..height :
              LET row == RowOf(board, k)
              IN  /\ Indented(row) <=> shifted(k, top)
                  /\ Spaced(row)
                  /\ Len(Tokens(row)) = width
                  /\ \A j \in 1..width :
                        LET stack == StackAt(g, top + k - 1, left + j - 1)
                        IN  Tokens(row)[j] =
                                CASE Len(stack) = 0 -> "."
                                  [] Len(stack) = 1 -> Piece_to_str(stack[1])
                                  [] OTHER -> ToString(Len(stack))
        /\ \A k \in 1..height : \A j \in 1..width :
              (k \in {1, height} \/ j \in {1, width}) => Tokens(RowOf(board, k))[j] = "."

\* the k-th row from the top is an odd row of the text, the top row being row 0
OddInText(k, top) == (k - 1) % 2 = 1

\* the k-th row from the top is an odd row of the board, the top row being
\* row `top` of the odd-r layout
OddOnBoard(k, top) == (top + k - 1) % 2 = 1

C18_EmptinessAgrees ==
    /\ is_empty(grid) <=> ~Holds(grid)
    /\ call.op = "board_string" => (ret.value = <<".">> <=> ~Holds(grid))

====
